---- MODULE Spec2Model ----
(***************************************************************************)
(* Moon Lander (src/main.c): the command loop of main, the turn handler,   *)
(* the physics integrator, the landing evaluator, the radar and the        *)
(* safety scorer.                                                          *)
(*                                                                         *)
(* Numbers.  The program computes in double; the model computes in exact   *)
(* fixed point, one unit = 0.01 (metres, m/s, m/s^2, safety percent).      *)
(* 1.6 m/s^2 is 160, 100 m is 10000, a safety of 100% is 10000.  All the   *)
(* inputs the model draws are multiples of 0.01 (engine forces multiples   *)
(* of 0.1, so that the 0.3 lateral factor stays exact).                    *)
(***************************************************************************)
EXTENDS Integers, Sequences, FiniteSets, TLC

VARIABLES
    config,     \* GameConfig config of main
    state,      \* GameState state of main
    game_over,  \* int game_over of main
    out,        \* what the last command printed, as a sequence of message tags
    log,        \* lander_results.txt: the outcome label of each block, in order
    written,    \* the block the last command appended to the log, if any
    running     \* FALSE once main has returned

vars == <<config, state, game_over, out, log, written, running>>

----------------------------------------------------------------------------
(* Bounds of the model *)

\* Blocks the result log may hold; a new flight is not started once reached.
MaxRecords == 1

\* Values the player types in the configuration menu.  A gravity of 10 m/s^2
\* keeps a flight to a dozen turns; with an engine force of 28.2 m/s^2 two
\* late burns bring the lander down inside the safe speeds.  The fuel of a
\* flight is always one the menu set (the default of 50 is never flown).
Gravities == {1000}
Forces == {2820}
Fuels == {-1, 2}

\* Outcomes of the four rand() calls of init_game: A, B, vel_h, vel_v.
Launches ==
    { l \in { [A |-> 0,      B |-> 10000, vel_h |-> 100, vel_v |-> -700],
              [A |-> -10000, B |-> 10000, vel_h |-> -50, vel_v |-> -1500] } :
        /\ l.A \in -10000..9900 /\ l.A % 100 = 0
        /\ l.B \in 10000..59900 /\ l.B % 100 = 0
        /\ l.vel_h \in -500..450 /\ l.vel_h % 50 = 0
        /\ l.vel_v \in -1500..400 /\ l.vel_v % 100 = 0 }

\* Outcomes of the hazard draws of generate_terrain_data: sample -> hazard.
NoHazard == [i \in 0..20 |-> 0]
Hazards ==
    { h \in { NoHazard,
              [NoHazard EXCEPT ![0] = -500, ![10] = -300, ![11] = 450,
                               ![6] = -50, ![18] = -400] } :
        \A i \in 0..20 : h[i] \in -500..450 /\ h[i] % 50 = 0 }

\* Characters the player types at the command prompt.
Keys == {"V", "C", "Q", "W", "S", "R", "Y", "Z", "X", "y", "?"}

\* Coordinates at which the safety scorer is probed (besides the lander's).
Probes == { -12000, -11000, -10999, -10500, -10001 } \cup
          { -10000 + 500 * k : k \in 0..40 } \cup
          { 10001, 10500, 10999, 11000, 12000 }

----------------------------------------------------------------------------
(* Arithmetic of the C program *)

fabs(x) == IF x < 0 THEN -x ELSE x

fmax(a, b) == IF a > b THEN a ELSE b

\* (int)(n / d) for d > 0: conversion to int truncates toward zero.
int_div(n, d) == IF n >= 0 THEN n \div d ELSE -((-n) \div d)

toupper(c) == IF c = "y" THEN "Y" ELSE c

\* sin(x*0.1)*5 + cos(x*0.05)*3 at x = -100 + 10 i, rounded to 0.01.
variation(i) ==
    << 357, -269, -691, -609, -157, 239, 254, -49, -293, -157, 300,
       684, 617, 92, -503, -720, -437, 48, 299, 143, -187 >>[i + 1]

----------------------------------------------------------------------------
(* Safety scorer and terrain generator *)

\* calculate_landing_safety without the final fmax(0, .).
calculate_landing_safety_unclamped(s, x_pos) ==
    LET index == int_div(x_pos + 10000, 1000)
        h == s.radar.terrain_height
    IN  IF index < 0 \/ index >= 21 THEN 0
        ELSE IF index > 0 /\ index < 20
        THEN 10000 - fabs(h[index]) * 10
             - (fabs(h[index] - h[index - 1]) + fabs(h[index + 1] - h[index])) * 5
        ELSE 10000 - fabs(h[index]) * 10

calculate_landing_safety(s, x_pos) ==
    LET index == int_div(x_pos + 10000, 1000)
        h == s.radar.terrain_height
    IN  IF index < 0 \/ index >= 21 THEN 0
        ELSE LET base == 10000 - fabs(h[index]) * 10
                 safety ==
                     IF index > 0 /\ index < 20
                     THEN LET slope_left == fabs(h[index] - h[index - 1])
                              slope_right == fabs(h[index + 1] - h[index])
                          IN  base - (slope_left + slope_right) * 5
                     ELSE base
             IN  fmax(0, safety)

\* best_scan that keeps the last maximum found (>= for >).
RECURSIVE best_scan_last(_, _, _, _)
best_scan_last(s, i, best_safety, best_x) ==
    IF i >= 20 THEN <<best_safety, best_x>>
    ELSE LET x_pos == -10000 + i * 1000
             safety == calculate_landing_safety(s, x_pos)
         IN  IF safety >= best_safety
             THEN best_scan_last(s, i + 1, safety, x_pos)
             ELSE best_scan_last(s, i + 1, best_safety, best_x)

\* The scan of generate_terrain_data from sample i on: <<best_safety, best_x>>.
RECURSIVE best_scan(_, _, _, _)
best_scan(s, i, best_safety, best_x) ==
    IF i >= 20 THEN <<best_safety, best_x>>
    ELSE LET x_pos == -10000 + i * 1000
             safety == calculate_landing_safety(s, x_pos)
         IN  IF safety > best_safety
             THEN best_scan(s, i + 1, safety, x_pos)
             ELSE best_scan(s, i + 1, best_safety, best_x)

generate_terrain_data(s, hazard) ==
    LET s1 == [s EXCEPT !.radar.terrain_height =
                            [i \in 0..20 |-> 0 + variation(i) + hazard[i]]]
        best == best_scan(s1, 1, -100, 0)
    IN  [s1 EXCEPT !.radar.safe_landing_x = best[2],
                   !.radar.safe_landing_score = best[1]]

----------------------------------------------------------------------------
(* Flight state *)

\* GameState state before the first init_game: never read by the program.
indeterminate ==
    [A |-> 0, B |-> 0, vel_h |-> 0, vel_v |-> 0,
     prev_vel_h |-> 0, prev_vel_v |-> 0, C |-> 0, engines_on |-> 0,
     time_step |-> 0,
     radar |-> [active |-> 0, turns_remaining |-> 0,
                terrain_height |-> [i \in 0..20 |-> 0],
                safe_landing_x |-> 0, safe_landing_score |-> 0]]

init_game(cfg, launch, hazard) ==
    generate_terrain_data(
        [A |-> launch.A, B |-> launch.B,
         vel_h |-> launch.vel_h, vel_v |-> launch.vel_v,
         prev_vel_h |-> launch.vel_h, prev_vel_v |-> launch.vel_v,
         C |-> cfg.initial_fuel, engines_on |-> 0, time_step |-> 1,
         radar |-> [active |-> 0, turns_remaining |-> 0,
                    terrain_height |-> [i \in 0..20 |-> 0],
                    safe_landing_x |-> 0, safe_landing_score |-> 0]],
        hazard)

\* activate_landing_radar with a window of 2 turns.
activate_landing_radar_short(s) ==
    [s EXCEPT !.radar.active = 1, !.radar.turns_remaining = 2]

activate_landing_radar(s) ==
    [s EXCEPT !.radar.active = 1, !.radar.turns_remaining = 3]

\* thrust with the lateral directions of Y and Z exchanged.
thrust_swapped(s, cfg, move_command) ==
    LET dt == s.time_step
    IN  IF s.engines_on # 0 /\ move_command = "Y"
            THEN <<-((cfg.engine_force * dt * 3) \div 10), cfg.engine_force * dt>>
        ELSE IF s.engines_on # 0 /\ move_command = "Z"
            THEN <<(cfg.engine_force * dt * 3) \div 10, cfg.engine_force * dt>>
        ELSE <<0, 0>>

\* Lines 365-373: what the burn adds to <<vel_h, vel_v>>.
thrust(s, cfg, move_command) ==
    LET dt == s.time_step
    IN  IF s.engines_on # 0 /\ move_command = "Y"
            THEN <<(cfg.engine_force * dt * 3) \div 10, cfg.engine_force * dt>>
        ELSE IF s.engines_on # 0 /\ move_command = "Z"
            THEN <<-((cfg.engine_force * dt * 3) \div 10), cfg.engine_force * dt>>
        ELSE <<0, 0>>

\* floor_altitude without the floor.
floor_altitude_none(B) == B

\* Line 378.
floor_altitude(B) == IF B < 0 THEN 0 ELSE B

update_physics(s, cfg, move_command) ==
    LET dt == s.time_step
        add == thrust(s, cfg, move_command)
        vel_v == s.vel_v - cfg.gravity * dt + add[2]
        vel_h == s.vel_h + add[1]
    IN  [s EXCEPT !.prev_vel_h = s.vel_h, !.prev_vel_v = s.vel_v,
                  !.vel_v = vel_v, !.vel_h = vel_h,
                  !.A = s.A + vel_h * dt,
                  !.B = floor_altitude(s.B + vel_v * dt)]

SAFE_VERTICAL_SPEED == 200
SAFE_HORIZONTAL_SPEED == 150

\* terrain_penalty of check_landing, times 5 (0.2 * |height| in 0.002 units).
terrain_penalty5(s) ==
    IF s.A >= -10000 /\ s.A <= 10000
    THEN LET i0 == int_div(s.A + 10000, 1000)
             i1 == IF i0 < 0 THEN 0 ELSE i0
             index == IF i1 > 20 THEN 20 ELSE i1
         IN  fabs(s.radar.terrain_height[index])
    ELSE 0

\* check_landing with the fixed thresholds, the terrain penalty forgotten.
check_landing_below(s) ==
    IF s.B < 0
    THEN IF /\ 5 * fabs(s.vel_v) < 5 * SAFE_VERTICAL_SPEED - terrain_penalty5(s)
            /\ 5 * fabs(s.vel_h) < 5 * SAFE_HORIZONTAL_SPEED - terrain_penalty5(s)
         THEN 1
         ELSE -1
    ELSE 0

check_landing_flat(s) ==
    IF s.B <= 0
    THEN IF /\ fabs(s.vel_v) < SAFE_VERTICAL_SPEED
            /\ fabs(s.vel_h) < SAFE_HORIZONTAL_SPEED
         THEN 1
         ELSE -1
    ELSE 0

\* 1 success, -1 crash, 0 still flying.
check_landing(s) ==
    IF s.B <= 0
    THEN IF /\ 5 * fabs(s.vel_v) < 5 * SAFE_VERTICAL_SPEED - terrain_penalty5(s)
            /\ 5 * fabs(s.vel_h) < 5 * SAFE_HORIZONTAL_SPEED - terrain_penalty5(s)
         THEN 1
         ELSE -1
    ELSE 0

\* save_result that writes the label CRASHED whatever the outcome.
save_result_crashed(s, result) ==
    [result |-> "CRASHED", A |-> s.A, B |-> s.B,
     vel_h |-> s.vel_h, vel_v |-> s.vel_v, C |-> s.C,
     safety |-> calculate_landing_safety(s, s.A)]

\* The block save_result appends (the timestamp is left out).
save_result(s, result) ==
    [result |-> result, A |-> s.A, B |-> s.B,
     vel_h |-> s.vel_h, vel_v |-> s.vel_v, C |-> s.C,
     safety |-> calculate_landing_safety(s, s.A)]

----------------------------------------------------------------------------
(* Turn handler *)

\* burn_rejected that tests the left burn only.
burn_rejected_left_only(s, cmd) == cmd = "Y" /\ s.engines_on = 0

\* spend_fuel that charges every turn, drifts included.
spend_fuel_always(s, cmd) == [s EXCEPT !.C = s.C - 1]

\* radar_decay that drops the signal one turn early.
radar_decay_early(s) ==
    IF s.radar.active # 0 /\ s.radar.turns_remaining > 0
    THEN LET left == s.radar.turns_remaining - 1
         IN  [s EXCEPT !.radar.turns_remaining = left,
                       !.radar.active = IF left <= 1 THEN 0 ELSE s.radar.active]
    ELSE s

fuel_exhausted_strict(s) == s.C < 0

\* Line 143: the tanks are empty when the turn starts.
fuel_exhausted(s) == s.C <= 0

burn_rejected_any(s, cmd) == s.engines_on = 0

\* Line 149: a burn asked for while the engines are off.
burn_rejected(s, cmd) == cmd \in {"Y", "Z"} /\ s.engines_on = 0

radar_decay_sticky(s) ==
    IF s.radar.active # 0 /\ s.radar.turns_remaining > 0
    THEN [s EXCEPT !.radar.turns_remaining = s.radar.turns_remaining - 1]
    ELSE s

\* Line 160.
spend_fuel(s, cmd) == IF cmd # "X" THEN [s EXCEPT !.C = s.C - 1] ELSE s

\* Lines 162-168.
radar_decay(s) ==
    IF s.radar.active # 0 /\ s.radar.turns_remaining > 0
    THEN LET left == s.radar.turns_remaining - 1
         IN  [s EXCEPT !.radar.turns_remaining = left,
                       !.radar.active = IF left <= 0 THEN 0 ELSE s.radar.active]
    ELSE s

\* What handle_game_turn does with the flight s on the command cmd (already
\* upper-cased); fp_ok tells whether fopen of the result log succeeds.
handle_game_turn(s, cfg, cmd, fp_ok) ==
    LET no_fuel == fuel_exhausted(s)
        s0 == IF no_fuel THEN [s EXCEPT !.engines_on = 0] ELSE s
        c0 == IF no_fuel THEN "X" ELSE cmd
        out0 == IF no_fuel THEN <<"NO_FUEL_DRIFT">> ELSE <<>>
    IN  IF burn_rejected(s0, c0)
        THEN [state |-> s0, game_over |-> 0,
              out |-> out0 \o <<"CANNOT_BURN">>, written |-> <<>>]
        ELSE
        LET out1 == IF s0.radar.active # 0 /\ s0.radar.turns_remaining > 0
                    THEN out0 \o <<"RADAR_PREVIOUS", "RADAR_DATA">>
                    ELSE out0
            s1 == update_physics(s0, cfg, c0)
            s2 == spend_fuel(s1, c0)
            s3 == radar_decay(s2)
            out2 == IF s2.radar.active # 0 /\ s3.radar.active = 0
                    THEN out1 \o <<"SIGNAL_LOST", "STATUS">>
                    ELSE out1 \o <<"STATUS">>
            landing_result == check_landing(s3)
            label == IF landing_result = 1 THEN "SUCCESS" ELSE "CRASHED"
        IN  IF landing_result # 0
            THEN [state |-> s3, game_over |-> 1,
                  out |-> out2
                          \o <<IF landing_result = 1 THEN "LANDED" ELSE "CRASH">>
                          \o <<IF fp_ok THEN "SAVED" ELSE "SAVE_ERROR">>,
                  written |-> IF fp_ok THEN <<save_result(s3, label)>>
                              ELSE <<>>]
            ELSE [state |-> s3, game_over |-> 0,
                  out |-> IF s3.C <= 0 THEN out2 \o <<"FUEL_DEPLETED">>
                          ELSE out2,
                  written |-> <<>>]

\* What a session of the configuration menu leaves: for each setting the last
\* value entered, or its current value when it was not edited (or scanf
\* failed).  The display mode only selects what display_status prints and is
\* left out.
configure_game(cfg, gravity, engine_force, initial_fuel) ==
    [cfg EXCEPT !.gravity = gravity, !.engine_force = engine_force,
                !.initial_fuel = initial_fuel]

----------------------------------------------------------------------------
(* The command loop of main *)

Init ==
    /\ config = [gravity |-> 160, engine_force |-> 300, initial_fuel |-> 50]
    /\ state = indeterminate
    /\ game_over = 1
    /\ out = <<>>
    /\ log = <<>>
    /\ written = <<>>
    /\ running = TRUE

\* Rejected that lets the engine switch S through while no flight is active.
Rejected_switch(c) ==
    /\ running
    /\ game_over # 0 /\ toupper(c) \notin {"V", "Q", "C"}
    /\ state' = IF toupper(c) = "S" THEN [state EXCEPT !.engines_on = 0]
                ELSE state
    /\ out' = IF toupper(c) = "S" THEN <<"ENGINES_OFF">> ELSE <<"GAME_OVER">>
    /\ written' = <<>>
    /\ UNCHANGED <<config, game_over, log, running>>

\* Line 80: no flight in progress and the command is not V, Q or C.
Rejected(c) ==
    /\ running
    /\ game_over # 0 /\ toupper(c) \notin {"V", "Q", "C"}
    /\ out' = <<"GAME_OVER">>
    /\ written' = <<>>
    /\ UNCHANGED <<config, state, game_over, log, running>>

NewGame(c) ==
    /\ running
    /\ toupper(c) = "V"
    /\ Len(log) < MaxRecords
    /\ config.initial_fuel \in Fuels
    /\ \E launch \in Launches, hazard \in Hazards :
           state' = init_game(config, launch, hazard)
    /\ game_over' = 0
    /\ out' = <<"NEW_GAME", "STATUS">>
    /\ written' = <<>>
    /\ UNCHANGED <<config, log, running>>

Configure(c) ==
    /\ running
    /\ toupper(c) = "C"
    /\ \E g \in Gravities, e \in Forces, f \in Fuels :
           config' = configure_game(config, g, e, f)
    /\ out' = <<"CONFIG_UPDATED">>
    /\ written' = <<>>
    /\ UNCHANGED <<state, game_over, log, running>>

Quit(c) ==
    /\ running
    /\ toupper(c) = "Q"
    /\ running' = FALSE
    /\ out' = <<"BYE">>
    /\ written' = <<>>
    /\ UNCHANGED <<config, state, game_over, log>>

EnginesOn(c) ==
    /\ running
    /\ game_over = 0 /\ toupper(c) = "W"
    /\ state' = [state EXCEPT !.engines_on = 1]
    /\ out' = <<"ENGINES_ON">>
    /\ written' = <<>>
    /\ UNCHANGED <<config, game_over, log, running>>

EnginesOff(c) ==
    /\ running
    /\ game_over = 0 /\ toupper(c) = "S"
    /\ state' = [state EXCEPT !.engines_on = 0]
    /\ out' = <<"ENGINES_OFF">>
    /\ written' = <<>>
    /\ UNCHANGED <<config, game_over, log, running>>

Radar(c) ==
    /\ running
    /\ game_over = 0 /\ toupper(c) = "R"
    /\ IF state.C > 0
       THEN LET s1 == activate_landing_radar(state)
                s2 == [s1 EXCEPT !.C = s1.C - 1]
            IN  /\ state' = s2
                /\ out' = IF s2.C <= 0
                          THEN <<"RADAR_ACTIVATED", "RADAR_DATA", "STATUS",
                                 "FUEL_DEPLETED">>
                          ELSE <<"RADAR_ACTIVATED", "RADAR_DATA", "STATUS">>
       ELSE /\ state' = state
            /\ out' = <<"NO_FUEL_RADAR">>
    /\ written' = <<>>
    /\ UNCHANGED <<config, game_over, log, running>>

Turn(c) ==
    /\ running
    /\ game_over = 0 /\ toupper(c) \in {"Y", "Z", "X"}
    /\ \E fp_ok \in BOOLEAN :
           LET r == handle_game_turn(state, config, toupper(c), fp_ok)
           IN  /\ state' = r.state
               /\ game_over' = r.game_over
               /\ out' = r.out
               /\ written' = r.written
               /\ log' = IF r.written # <<>>
                         THEN Append(log, r.written[1].result)
                         ELSE log
    /\ UNCHANGED <<config, running>>

Unknown(c) ==
    /\ running
    /\ game_over = 0
    /\ toupper(c) \notin {"V", "C", "Q", "W", "S", "R", "Y", "Z", "X"}
    /\ out' = <<"UNKNOWN">>
    /\ written' = <<>>
    /\ UNCHANGED <<config, state, game_over, log, running>>

Next ==
    \E c \in Keys :
        \/ Rejected(c)
        \/ NewGame(c)
        \/ Configure(c)
        \/ Quit(c)
        \/ EnginesOn(c)
        \/ EnginesOff(c)
        \/ Radar(c)
        \/ Turn(c)
        \/ Unknown(c)

Spec == Init /\ [][Next]_vars

----------------------------------------------------------------------------
(* Vocabulary of the properties *)

\* A flight has been created: init_game has run on state.
has_flight == state # indeterminate

Printed(tag) == \E i \in DOMAIN out : out[i] = tag

PrintedNext(tag) == \E i \in DOMAIN out' : out'[i] = tag

\* The step is the command k (upper case) reaching handle_game_turn.
TurnBy(k) == \E c \in Keys : toupper(c) = k /\ Turn(c)

\* The step is a resolved turn: handle_game_turn ran past its early return.
ResolvedTurn == (\E c \in Keys : Turn(c)) /\ PrintedNext("STATUS")

\* The last command was a resolved turn.
TurnResolved ==
    Printed("STATUS") /\ ~Printed("NEW_GAME") /\ ~Printed("RADAR_ACTIVATED")

----------------------------------------------------------------------------
(* C1 *)

\* C1: the command R during an active flight is refused when fuel is 0 (fuel
\* and radar unchanged); with fuel >= 1 it spends exactly one fuel unit, makes
\* the radar active with turns_remaining = 3, and leaves position, altitude,
\* velocities and the engines flag alone.
C1_RadarActivation ==
    [][ (\E c \in Keys : Radar(c)) =>
          IF state.C <= 0
          THEN /\ state'.C = state.C
               /\ state'.radar = state.radar
               /\ PrintedNext("NO_FUEL_RADAR")
          ELSE /\ state'.C = state.C - 1
               /\ state'.radar.active = 1
               /\ state'.radar.turns_remaining = 3
               /\ state'.A = state.A /\ state'.B = state.B
               /\ state'.vel_h = state.vel_h /\ state'.vel_v = state.vel_v
               /\ state'.engines_on = state.engines_on ]_vars

\* The radar was activated with the last fuel unit and a further R was refused.
C1_Witness ==
    /\ game_over = 0 /\ Printed("NO_FUEL_RADAR")
    /\ state.C = 0
    /\ state.radar.active = 1 /\ state.radar.turns_remaining = 3

----------------------------------------------------------------------------
(* C2 *)

\* C2: each resolved turn takes one turn off an active radar, which is still
\* active at 2 and at 1 and goes inactive exactly when the count reaches 0
\* (the third resolved turn after an activation); W, S, a rejected burn, an
\* unknown command and the configuration menu leave the radar alone.
C2_RadarCountdown ==
    [][ /\ ResolvedTurn /\ state.radar.active # 0 =>
              /\ state.radar.turns_remaining = 3 =>
                     state'.radar.turns_remaining = 2 /\ state'.radar.active # 0
              /\ state.radar.turns_remaining = 2 =>
                     state'.radar.turns_remaining = 1 /\ state'.radar.active # 0
              /\ state.radar.turns_remaining = 1 =>
                     /\ state'.radar.turns_remaining = 0
                     /\ state'.radar.active = 0
                     /\ PrintedNext("SIGNAL_LOST")
        /\ \/ \E c \in Keys : EnginesOn(c) \/ EnginesOff(c)
           \/ \E c \in Keys : Unknown(c) \/ Configure(c)
           \/ (\E c \in Keys : Turn(c)) /\ PrintedNext("CANNOT_BURN")
           => state'.radar = state.radar ]_vars

\* The third resolved turn after an activation: signal lost, flight still on.
C2_Witness ==
    /\ game_over = 0 /\ Printed("SIGNAL_LOST")
    /\ state.radar.active = 0 /\ state.radar.turns_remaining = 0

----------------------------------------------------------------------------
(* C3 *)

\* C3 as stated: a burn command (Y or Z) during an active flight with the
\* engines off is rejected and the whole flight state is unchanged.  Stated
\* for flights whose fuel is not negative.
C3_Original ==
    [][ (TurnBy("Y") \/ TurnBy("Z")) /\ state.engines_on = 0 /\ state.C >= 0 =>
            state' = state /\ PrintedNext("CANNOT_BURN") ]_vars

\* C3 amended: a burn command (Y or Z) during an active flight with the
\* engines off and at least 1 fuel unit left is rejected and is not a turn:
\* the whole flight state is unchanged.
C3_BurnRejected ==
    [][ (TurnBy("Y") \/ TurnBy("Z")) /\ state.engines_on = 0 /\ state.C >= 1 =>
            state' = state /\ PrintedNext("CANNOT_BURN") /\ game_over' = 0 ]_vars

C3_Witness ==
    /\ game_over = 0 /\ Printed("CANNOT_BURN")
    /\ state.engines_on = 0 /\ state.C >= 1

----------------------------------------------------------------------------
(* C4 *)

\* C4: remaining fuel is non-negative in every state of a flight.
C4_FuelNonNegative == has_flight => state.C >= 0

----------------------------------------------------------------------------
(* C5 *)

\* 0.2 x |height at the truncated sample index|, in units of 0.001; 0 when the
\* position is outside [-100, 100].
C5_Penalty(s) ==
    IF -10000 <= s.A /\ s.A <= 10000
    THEN 2 * fabs(s.radar.terrain_height[(s.A + 10000) \div 1000])
    ELSE 0

C5_Expected(s) ==
    IF s.B > 0 THEN "flying"
    ELSE IF /\ 10 * fabs(s.vel_v) < 2000 - C5_Penalty(s)
            /\ 10 * fabs(s.vel_h) < 1500 - C5_Penalty(s)
         THEN "success"
         ELSE "crash"

C5_Observed ==
    IF Printed("LANDED") THEN "success"
    ELSE IF Printed("CRASH") THEN "crash"
    ELSE "flying"

\* C5: after every resolved turn the outcome is still-flying when altitude > 0
\* and otherwise success exactly when |vel_v| < 2.0 - penalty and
\* |vel_h| < 1.5 - penalty, crash if not; the flight ends on success or crash
\* and the block written to the log carries that outcome.
C5_LandingClassification ==
    TurnResolved =>
        /\ C5_Observed = C5_Expected(state)
        /\ game_over = (IF C5_Expected(state) = "flying" THEN 0 ELSE 1)
        /\ written # <<>> =>
               written[1].result =
                   (IF C5_Expected(state) = "success" THEN "SUCCESS" ELSE "CRASHED")

\* A successful landing on rough ground: the penalty is positive.
C5_Witness ==
    /\ TurnResolved /\ Printed("LANDED") /\ game_over = 1
    /\ C5_Penalty(state) > 0

----------------------------------------------------------------------------
(* C6 *)

\* C6: altitude is never negative in a state of a flight.
C6_AltitudeNonNegative == has_flight => state.B >= 0

\* Third drift of the launch at B = 100 m, vel_v = -15 m/s under 10 m/s^2:
\* the altitude was 40 m and the step is -45 m.
C6_Witness ==
    /\ TurnResolved /\ state.B = 0
    /\ state.prev_vel_v = -3500 /\ state.vel_v = -4500 /\ state.A = -10150

----------------------------------------------------------------------------
(* C7 *)

\* C7: a resolved turn that starts with the engines off leaves the horizontal
\* velocity unchanged and changes the vertical velocity by exactly
\* -gravity x turn duration; a drift (X) never changes the fuel.
C7_EnginesOffDrift ==
    [][ /\ ResolvedTurn /\ state.engines_on = 0 =>
              /\ state'.vel_h = state.vel_h
              /\ state'.vel_v = state.vel_v - config.gravity * state.time_step
        /\ TurnBy("X") => state'.C = state.C ]_vars

\* A drift with the engines off and fuel on board.
C7_Witness ==
    /\ TurnResolved /\ ~Printed("NO_FUEL_DRIFT")
    /\ state.engines_on = 0 /\ state.C = 2
    /\ state.vel_h = state.prev_vel_h
    /\ state.vel_v = state.prev_vel_v - config.gravity

----------------------------------------------------------------------------
(* C8 *)

\* The scenario of C8 on the turn handler: fuel 5, gravity 1.6, engine force
\* 3.0, altitude 100, zero velocity, engines on, one burn-left.
C8_Scenario ==
    LET cfg == [gravity |-> 160, engine_force |-> 300, initial_fuel |-> 5]
        s0 == [init_game(cfg, [A |-> 0, B |-> 10000, vel_h |-> 0, vel_v |-> 0],
                         NoHazard) EXCEPT !.engines_on = 1]
        r == handle_game_turn(s0, cfg, "Y", TRUE)
    IN  r.state.vel_v = 140 /\ r.state.vel_h = 90 /\ r.state.C = 4

C8_Burn(k, sign) ==
    TurnBy(k) /\ state.engines_on # 0 /\ state.C >= 1 =>
        LET dt == state.time_step
            newB == state.B + state'.vel_v * dt
        IN  /\ state'.C = state.C - 1
            /\ state'.vel_v =
                   state.vel_v + (config.engine_force - config.gravity) * dt
            /\ 10 * state'.vel_h =
                   10 * state.vel_h + sign * 3 * config.engine_force * dt
            /\ state'.A = state.A + state'.vel_h * dt
            /\ state'.B = (IF newB < 0 THEN 0 ELSE newB)

\* C8: a resolved burn (Y or Z, engines on, fuel >= 1) takes exactly 1 fuel,
\* adds (engine_force - gravity) x dt to the vertical velocity and
\* 0.3 x engine_force x dt to the horizontal velocity (plus for Y, minus for
\* Z), then moves position and altitude by the new velocities (the altitude
\* stopping at the ground); and the scenario gives 1.4, 0.9 and fuel 4.
C8_BurnTurn ==
    [][ C8_Burn("Y", 1) /\ C8_Burn("Z", -1) /\ C8_Scenario ]_vars

\* A burn-left just resolved: +8.46 m/s sideways, +18.2 m/s upward, 1 fuel left.
C8_Witness ==
    /\ TurnResolved /\ state.engines_on = 1 /\ state.C = 1
    /\ state.vel_h = state.prev_vel_h + 846
    /\ state.vel_v = state.prev_vel_v + 1820

----------------------------------------------------------------------------
(* C9 *)

\* C9: the safety the result log records at impact is 0 whenever the lander
\* is outside [-100, 100].
C9_OutOfRangeScoresZero ==
    written # <<>> /\ (written[1].A < -10000 \/ written[1].A > 10000) =>
        written[1].safety = 0

----------------------------------------------------------------------------
(* C10 *)

\* 100 - 10 |h(i)| - 5 (|left slope| + |right slope|), the slopes for interior
\* samples only; i is the sample index of x, for x in [-100, 100].
C10_Raw(s, x) ==
    LET h == s.radar.terrain_height
        i == (x + 10000) \div 1000
    IN  10000 - 10 * fabs(h[i])
        - (IF 1 <= i /\ i <= 19
           THEN 5 * (fabs(h[i] - h[i - 1]) + fabs(h[i + 1] - h[i]))
           ELSE 0)

\* C10: for the terrain of every flight and every coordinate, the safety
\* score lies in [0, 100], and inside the mapped range it is the raw score
\* clamped below at 0.
C10_SafetyRange ==
    has_flight =>
        \A x \in Probes \cup {state.A} :
            LET score == calculate_landing_safety(state, x)
            IN  /\ 0 <= score /\ score <= 10000
                /\ -10000 <= x /\ x <= 10000 =>
                       score = (IF C10_Raw(state, x) < 0 THEN 0
                                ELSE C10_Raw(state, x))

\* A terrain with a sample whose raw score is negative (clamped to 0) and one
\* whose score is positive.
C10_Witness ==
    /\ has_flight
    /\ \E x \in Probes : -10000 <= x /\ x <= 10000 /\ C10_Raw(state, x) < 0
                         /\ calculate_landing_safety(state, x) = 0
    /\ \E x \in Probes : calculate_landing_safety(state, x) > 0

----------------------------------------------------------------------------
(* C11 *)

\* Safety scores of the interior samples 1..19 of the flight s.
C11_Scores(s) ==
    [i \in 1..19 |-> calculate_landing_safety(s, -10000 + 1000 * i)]

C11_Rederived(s) ==
    LET score == C11_Scores(s)
        best == CHOOSE i \in 1..19 :
                    /\ \A j \in 1..19 : score[j] <= score[i]
                    /\ \A j \in 1..(i - 1) : score[j] < score[i]
    IN  /\ s.radar.safe_landing_score = score[best]
        /\ s.radar.safe_landing_x = -10000 + 1000 * best

\* C11: in every state of a flight the stored recommendation is the maximum
\* safety score over the interior samples 1..19 and the leftmost coordinate
\* that attains it; only a new flight changes the terrain map or the
\* recommendation.
C11_Recommendation ==
    /\ [](has_flight => C11_Rederived(state))
    /\ [][ ~PrintedNext("NEW_GAME") =>
               /\ state'.radar.terrain_height = state.radar.terrain_height
               /\ state'.radar.safe_landing_x = state.radar.safe_landing_x
               /\ state'.radar.safe_landing_score = state.radar.safe_landing_score
         ]_vars

\* A finished flight over a terrain where samples 7 and 18 tie for the best
\* score: the recommendation is the left one, x = -30 m.
C11_Witness ==
    /\ has_flight /\ game_over = 1
    /\ C11_Scores(state)[7] = C11_Scores(state)[18]
    /\ \A j \in 1..19 : C11_Scores(state)[j] <= C11_Scores(state)[7]
    /\ state.radar.safe_landing_x = -3000
    /\ state.radar.safe_landing_score = 7025

----------------------------------------------------------------------------
(* C12 *)

\* C12: while no flight is active every step is V, C or Q, or a rejection
\* that changes nothing; until the next V the flight state and the log stay as
\* they are; an unknown command changes nothing at any time.
C12_NoFlightNoEffect ==
    [][ /\ game_over # 0 =>
              \/ PrintedNext("NEW_GAME") /\ game_over' = 0
              \/ PrintedNext("CONFIG_UPDATED") /\ UNCHANGED <<state, game_over, log>>
              \/ PrintedNext("BYE") /\ UNCHANGED <<config, state, game_over, log>>
              \/ /\ PrintedNext("GAME_OVER")
                 /\ UNCHANGED <<config, state, game_over, log, running>>
        /\ PrintedNext("UNKNOWN") =>
               UNCHANGED <<config, state, game_over, log, running>> ]_vars

\* A command rejected after a landing with the engines still on.
C12_Witness ==
    /\ has_flight /\ game_over = 1 /\ Printed("GAME_OVER")
    /\ state.B = 0 /\ state.engines_on = 1

----------------------------------------------------------------------------
(* C13 *)

\* C13: the step that ends a flight (game_over goes from 0 to 1, on a resolved
\* turn whose outcome is success or crash) appends exactly one block to the
\* log when the file opens, labelled with that outcome and holding the final
\* state; no other step appends anything.
C13_OneRecordPerFlight ==
    [][ IF game_over = 0 /\ game_over' = 1
        THEN /\ PrintedNext("STATUS")
             /\ PrintedNext("LANDED") \/ PrintedNext("CRASH")
             /\ IF PrintedNext("SAVED")
                THEN /\ Len(written') = 1
                     /\ log' = Append(log, written'[1].result)
                     /\ written'[1].result =
                            (IF PrintedNext("LANDED") THEN "SUCCESS" ELSE "CRASHED")
                     /\ written'[1].A = state'.A /\ written'[1].C = state'.C
                ELSE /\ PrintedNext("SAVE_ERROR")
                     /\ log' = log /\ written' = <<>>
        ELSE log' = log /\ written' = <<>> ]_vars

\* A flight ended by a successful landing: one block, labelled SUCCESS.
C13_Witness ==
    /\ game_over = 1 /\ Printed("LANDED") /\ Printed("SAVED")
    /\ log = <<"SUCCESS">>
    /\ Len(written) = 1 /\ written[1].result = "SUCCESS"

----------------------------------------------------------------------------
(* C14 *)

\* The command loop with a player who also types the default engine force of
\* 3.0 m/s^2 in the configuration menu.
MenuForces == Forces \cup {300}

ConfigureAny(c) ==
    /\ running
    /\ toupper(c) = "C"
    /\ \E g \in Gravities, e \in MenuForces, f \in Fuels :
           config' = configure_game(config, g, e, f)
    /\ out' = <<"CONFIG_UPDATED">>
    /\ written' = <<>>
    /\ UNCHANGED <<state, game_over, log, running>>

NextMenu ==
    \E c \in Keys :
        \/ Rejected(c)
        \/ NewGame(c)
        \/ ConfigureAny(c)
        \/ Quit(c)
        \/ EnginesOn(c)
        \/ EnginesOff(c)
        \/ Radar(c)
        \/ Turn(c)
        \/ Unknown(c)

SpecMenu == Init /\ [][NextMenu]_vars

\* C14: while a flight is active the gravity and the engine thrust of the
\* configuration do not change.
C14_ConfigFixedInFlight ==
    [][ game_over = 0 /\ game_over' = 0 =>
            /\ config'.gravity = config.gravity
            /\ config'.engine_force = config.engine_force ]_vars

----------------------------------------------------------------------------
(* C15 *)

\* C15: a turn command (Y, Z or X) given with fuel <= 0 is resolved as a
\* forced drift whatever the engines flag was: the engines end switched off,
\* the horizontal velocity is unchanged, the vertical velocity changes by
\* gravity alone, the fuel is not decremented, and the turn counts: the
\* position advances, the radar countdown decays and the landing is evaluated.
C15_ForcedDrift ==
    [][ (\E c \in Keys : Turn(c)) /\ state.C <= 0 =>
            LET dt == state.time_step
                left == state.radar.turns_remaining
            IN  /\ PrintedNext("NO_FUEL_DRIFT") /\ PrintedNext("STATUS")
                /\ state'.engines_on = 0
                /\ state'.vel_h = state.vel_h
                /\ state'.vel_v = state.vel_v - config.gravity * dt
                /\ state'.C = state.C
                /\ state'.A = state.A + state.vel_h * dt
                /\ state'.B = fmax(0, state.B + state'.vel_v * dt)
                /\ state'.radar.turns_remaining =
                       IF left > 0 THEN left - 1 ELSE 0
                /\ game_over' = IF state'.B <= 0 THEN 1 ELSE 0
                /\ game_over' = 1 =>
                       PrintedNext("LANDED") \/ PrintedNext("CRASH") ]_vars

\* A burn asked for with the engines still on after the last unit of fuel was
\* spent, resolved as a drift that leaves the flight in the air.
C15_Witness ==
    /\ has_flight /\ game_over = 0
    /\ Printed("NO_FUEL_DRIFT") /\ TurnResolved
    /\ state.C = 0 /\ state.engines_on = 0
    /\ state.vel_h = state.prev_vel_h
    /\ state.vel_v = state.prev_vel_v - config.gravity * state.time_step
    /\ state.B > 0

----------------------------------------------------------------------------
(* C16 *)

\* C16: in every state of a flight the radar is either active with a countdown
\* of 1, 2 or 3 turns, or inactive with a countdown of 0.
C16_RadarState ==
    has_flight =>
        \/ state.radar.active = 1 /\ state.radar.turns_remaining \in 1..3
        \/ state.radar.active = 0 /\ state.radar.turns_remaining = 0

\* The radar on its last turn, after two resolved turns since its activation.
C16_Witness ==
    /\ has_flight /\ game_over = 0 /\ TurnResolved
    /\ state.radar.active = 1 /\ state.radar.turns_remaining = 1

----------------------------------------------------------------------------
(* C17 *)

\* C17: a flight is active exactly while its altitude is strictly positive: a
\* new flight starts at an altitude of at least 100 m, and every step that
\* brings the altitude to 0 ends the flight and is a resolved turn.
C17_ActiveAboveGround ==
    /\ [](has_flight => (game_over = 0 <=> state.B > 0))
    /\ [][ /\ PrintedNext("NEW_GAME") => state'.B >= 10000
           /\ game_over = 0 /\ game_over' = 1 => ResolvedTurn /\ state'.B = 0
           /\ has_flight /\ state.B > 0 /\ state'.B = 0 => ResolvedTurn
       ]_vars

\* A flight ended by the turn that reached the ground too fast, the altitude
\* the turn before still positive.
C17_Witness ==
    /\ has_flight /\ game_over = 1 /\ TurnResolved
    /\ state.B = 0 /\ Printed("CRASH")
    /\ state.vel_v < -SAFE_VERTICAL_SPEED

----------------------------------------------------------------------------
(* C18 *)

\* The command loop with a player who flies every flight to its end: V, C and
\* Q are typed only between flights, and a flight in progress keeps receiving
\* turn commands that are resolved.
NextPlayer ==
    \E c \in Keys :
        \/ Rejected(c)
        \/ game_over # 0 /\ NewGame(c)
        \/ game_over # 0 /\ Configure(c)
        \/ game_over # 0 /\ Quit(c)
        \/ EnginesOn(c)
        \/ EnginesOff(c)
        \/ Radar(c)
        \/ Turn(c)
        \/ Unknown(c)

SpecPlayer == Init /\ [][NextPlayer]_vars /\ WF_vars(ResolvedTurn)

\* C18: with gravity > 0 and fuel >= 0, a flight whose configuration is left
\* alone and whose player keeps issuing resolved turns eventually reaches a
\* terminal outcome.
C18_FlightTerminates ==
    (game_over = 0 /\ config.gravity > 0 /\ state.C >= 0) ~> (game_over = 1)

\* A flight that spent all its fuel on burns and then fell to the ground.
C18_Witness ==
    /\ has_flight /\ game_over = 1 /\ TurnResolved
    /\ Printed("NO_FUEL_DRIFT") /\ state.C = 0 /\ state.B = 0
    /\ config.gravity > 0

----------------------------------------------------------------------------
(* C19 *)

calculate_landing_safety_reads_open(x_pos) ==
    LET index == int_div(x_pos + 10000, 1000)
    IN  IF index < 0 \/ index >= 21 THEN {}
        ELSE {index, index - 1, index + 1}

\* The indices of terrain_height that calculate_landing_safety reads for the
\* position x_pos (lines 225-231).
calculate_landing_safety_reads(x_pos) ==
    LET index == int_div(x_pos + 10000, 1000)
    IN  IF index < 0 \/ index >= 21 THEN {}
        ELSE IF index > 0 /\ index < 20
             THEN {index, index - 1, index + 1}
             ELSE {index}

\* The indices of terrain_height that check_landing reads for the flight s
\* (lines 385-391).
check_landing_reads(s) ==
    IF s.B <= 0 /\ s.A >= -10000 /\ s.A <= 10000
    THEN LET i0 == int_div(s.A + 10000, 1000)
             i1 == IF i0 < 0 THEN 0 ELSE i0
         IN  {IF i1 > 20 THEN 20 ELSE i1}
    ELSE {}

VIS_WIDTH == 61

\* The indices of terrain_height that display_visualizer reads for the column
\* x (lines 281-286).  pos_in_array is kept in hundredths of a sample; a
\* double a hair off a whole sample moves floor or ceil by one, which the
\* clamps to 0..20 absorb like they absorb the exact value.
display_visualizer_reads(x) ==
    LET pos_in_array == ((x * 20000) \div (VIS_WIDTH - 1)) \div 10
        fl == pos_in_array \div 100
        ce == (pos_in_array + 99) \div 100
        index1 == fmax(0, IF fl > 20 THEN 20 ELSE fl)
        index2 == fmax(0, IF ce > 20 THEN 20 ELSE ce)
    IN  {index1, index2}

\* C19: for every horizontal position, inside or outside [-100, 100], the
\* safety scorer, the landing evaluator and the visualizer read the terrain
\* map only at indices 0..20.
C19_TerrainReadsInRange ==
    has_flight =>
        /\ \A x_pos \in Probes \cup {state.A} :
               /\ calculate_landing_safety_reads(x_pos) \subseteq 0..20
               /\ check_landing_reads([state EXCEPT !.A = x_pos, !.B = 0])
                      \subseteq 0..20
        /\ check_landing_reads(state) \subseteq DOMAIN state.radar.terrain_height
        /\ \A x \in 0..(VIS_WIDTH - 1) :
               display_visualizer_reads(x) \subseteq 0..20

\* A flight that came down left of the scanned ground, at a position the
\* safety scorer still maps to sample 0 and the landing evaluator skips.
C19_Witness ==
    /\ has_flight /\ game_over = 1 /\ state.B = 0
    /\ state.A < -10000 /\ state.A > -11000
    /\ calculate_landing_safety_reads(state.A) = {0}
    /\ check_landing_reads(state) = {}
    /\ display_visualizer_reads(VIS_WIDTH - 1) = {20}

====
